---------------------------- MODULE Spec2Model ----------------------------
(***************************************************************************)
(* A model of app.py of vcio-mvp: the QuestionnaireProcessor (grade codec, *)
(* the three scoring passes, the progress tracker) and the session layer   *)
(* that records answers.                                                   *)
(*                                                                         *)
(* Python strings are sequences of one-character strings, so that          *)
(* str.split('_'), str.startswith and int() are computed, not assumed.     *)
(* Python dicts whose iteration order the code depends on (the catalog,    *)
(* the answer map) are sequences of entries with distinct keys, in         *)
(* insertion order; dicts that are only looked up (the three score maps)   *)
(* are functions.  Floats are IEEE 754 doubles, computed bit for bit.      *)
(***************************************************************************)
EXTENDS Integers, Sequences, FiniteSets, TLC

VARIABLES
    question_files,   \* the catalog: a sequence of pages (dict order)
    answers,          \* st.session_state.answers / the answers argument
    current_question, \* st.session_state.current_question
    page,             \* the page st.navigation runs: 0 the summary, i page i
    lastOp,           \* the operation that produced this state
    result,           \* what the last calculate_all_scores returned or raised
    progress,         \* what the last get_progress_data returned
    score_cache,      \* QuestionnaireProcessor._score_cache
    probe,            \* an earlier call of calculate_all_scores: its argument and result
    answers2,         \* a second answer map (two-run comparisons)
    result2,          \* calculate_all_scores of answers2
    lines,            \* the (score, letter) lines display_score_section wrote
    shown             \* history: for each answer key, the question that was
                      \* displayed and the option chosen when it was written

vars == <<question_files, answers, current_question, page, lastOp, result,
          progress, score_cache, probe, answers2, result2, lines, shown>>

-----------------------------------------------------------------------------
(* Strings *)

U == <<"_">>

\* A character is a one-character string; a character that a TLA+ string
\* cannot hold is written as its code point ("U+000B", "U+FF13").

Digits == <<"0", "1", "2", "3", "4", "5", "6", "7", "8", "9">>

\* The decimal digits of the other scripts (Unicode category Nd), which
\* int() reads as digits too: one row per script, from its zero to its nine.
ScriptDigits == <<
    <<"U+0660", "U+0661", "U+0662", "U+0663", "U+0664", "U+0665", "U+0666", "U+0667", "U+0668", "U+0669">>,
    <<"U+06F0", "U+06F1", "U+06F2", "U+06F3", "U+06F4", "U+06F5", "U+06F6", "U+06F7", "U+06F8", "U+06F9">>,
    <<"U+07C0", "U+07C1", "U+07C2", "U+07C3", "U+07C4", "U+07C5", "U+07C6", "U+07C7", "U+07C8", "U+07C9">>,
    <<"U+0966", "U+0967", "U+0968", "U+0969", "U+096A", "U+096B", "U+096C", "U+096D", "U+096E", "U+096F">>,
    <<"U+09E6", "U+09E7", "U+09E8", "U+09E9", "U+09EA", "U+09EB", "U+09EC", "U+09ED", "U+09EE", "U+09EF">>,
    <<"U+0A66", "U+0A67", "U+0A68", "U+0A69", "U+0A6A", "U+0A6B", "U+0A6C", "U+0A6D", "U+0A6E", "U+0A6F">>,
    <<"U+0AE6", "U+0AE7", "U+0AE8", "U+0AE9", "U+0AEA", "U+0AEB", "U+0AEC", "U+0AED", "U+0AEE", "U+0AEF">>,
    <<"U+0B66", "U+0B67", "U+0B68", "U+0B69", "U+0B6A", "U+0B6B", "U+0B6C", "U+0B6D", "U+0B6E", "U+0B6F">>,
    <<"U+0BE6", "U+0BE7", "U+0BE8", "U+0BE9", "U+0BEA", "U+0BEB", "U+0BEC", "U+0BED", "U+0BEE", "U+0BEF">>,
    <<"U+0C66", "U+0C67", "U+0C68", "U+0C69", "U+0C6A", "U+0C6B", "U+0C6C", "U+0C6D", "U+0C6E", "U+0C6F">>,
    <<"U+0CE6", "U+0CE7", "U+0CE8", "U+0CE9", "U+0CEA", "U+0CEB", "U+0CEC", "U+0CED", "U+0CEE", "U+0CEF">>,
    <<"U+0D66", "U+0D67", "U+0D68", "U+0D69", "U+0D6A", "U+0D6B", "U+0D6C", "U+0D6D", "U+0D6E", "U+0D6F">>,
    <<"U+0DE6", "U+0DE7", "U+0DE8", "U+0DE9", "U+0DEA", "U+0DEB", "U+0DEC", "U+0DED", "U+0DEE", "U+0DEF">>,
    <<"U+0E50", "U+0E51", "U+0E52", "U+0E53", "U+0E54", "U+0E55", "U+0E56", "U+0E57", "U+0E58", "U+0E59">>,
    <<"U+0ED0", "U+0ED1", "U+0ED2", "U+0ED3", "U+0ED4", "U+0ED5", "U+0ED6", "U+0ED7", "U+0ED8", "U+0ED9">>,
    <<"U+0F20", "U+0F21", "U+0F22", "U+0F23", "U+0F24", "U+0F25", "U+0F26", "U+0F27", "U+0F28", "U+0F29">>,
    <<"U+1040", "U+1041", "U+1042", "U+1043", "U+1044", "U+1045", "U+1046", "U+1047", "U+1048", "U+1049">>,
    <<"U+1090", "U+1091", "U+1092", "U+1093", "U+1094", "U+1095", "U+1096", "U+1097", "U+1098", "U+1099">>,
    <<"U+17E0", "U+17E1", "U+17E2", "U+17E3", "U+17E4", "U+17E5", "U+17E6", "U+17E7", "U+17E8", "U+17E9">>,
    <<"U+1810", "U+1811", "U+1812", "U+1813", "U+1814", "U+1815", "U+1816", "U+1817", "U+1818", "U+1819">>,
    <<"U+1946", "U+1947", "U+1948", "U+1949", "U+194A", "U+194B", "U+194C", "U+194D", "U+194E", "U+194F">>,
    <<"U+19D0", "U+19D1", "U+19D2", "U+19D3", "U+19D4", "U+19D5", "U+19D6", "U+19D7", "U+19D8", "U+19D9">>,
    <<"U+1A80", "U+1A81", "U+1A82", "U+1A83", "U+1A84", "U+1A85", "U+1A86", "U+1A87", "U+1A88", "U+1A89">>,
    <<"U+1A90", "U+1A91", "U+1A92", "U+1A93", "U+1A94", "U+1A95", "U+1A96", "U+1A97", "U+1A98", "U+1A99">>,
    <<"U+1B50", "U+1B51", "U+1B52", "U+1B53", "U+1B54", "U+1B55", "U+1B56", "U+1B57", "U+1B58", "U+1B59">>,
    <<"U+1BB0", "U+1BB1", "U+1BB2", "U+1BB3", "U+1BB4", "U+1BB5", "U+1BB6", "U+1BB7", "U+1BB8", "U+1BB9">>,
    <<"U+1C40", "U+1C41", "U+1C42", "U+1C43", "U+1C44", "U+1C45", "U+1C46", "U+1C47", "U+1C48", "U+1C49">>,
    <<"U+1C50", "U+1C51", "U+1C52", "U+1C53", "U+1C54", "U+1C55", "U+1C56", "U+1C57", "U+1C58", "U+1C59">>,
    <<"U+A620", "U+A621", "U+A622", "U+A623", "U+A624", "U+A625", "U+A626", "U+A627", "U+A628", "U+A629">>,
    <<"U+A8D0", "U+A8D1", "U+A8D2", "U+A8D3", "U+A8D4", "U+A8D5", "U+A8D6", "U+A8D7", "U+A8D8", "U+A8D9">>,
    <<"U+A900", "U+A901", "U+A902", "U+A903", "U+A904", "U+A905", "U+A906", "U+A907", "U+A908", "U+A909">>,
    <<"U+A9D0", "U+A9D1", "U+A9D2", "U+A9D3", "U+A9D4", "U+A9D5", "U+A9D6", "U+A9D7", "U+A9D8", "U+A9D9">>,
    <<"U+A9F0", "U+A9F1", "U+A9F2", "U+A9F3", "U+A9F4", "U+A9F5", "U+A9F6", "U+A9F7", "U+A9F8", "U+A9F9">>,
    <<"U+AA50", "U+AA51", "U+AA52", "U+AA53", "U+AA54", "U+AA55", "U+AA56", "U+AA57", "U+AA58", "U+AA59">>,
    <<"U+ABF0", "U+ABF1", "U+ABF2", "U+ABF3", "U+ABF4", "U+ABF5", "U+ABF6", "U+ABF7", "U+ABF8", "U+ABF9">>,
    <<"U+FF10", "U+FF11", "U+FF12", "U+FF13", "U+FF14", "U+FF15", "U+FF16", "U+FF17", "U+FF18", "U+FF19">>,
    <<"U+104A0", "U+104A1", "U+104A2", "U+104A3", "U+104A4", "U+104A5", "U+104A6", "U+104A7", "U+104A8", "U+104A9">>,
    <<"U+10D30", "U+10D31", "U+10D32", "U+10D33", "U+10D34", "U+10D35", "U+10D36", "U+10D37", "U+10D38", "U+10D39">>,
    <<"U+11066", "U+11067", "U+11068", "U+11069", "U+1106A", "U+1106B", "U+1106C", "U+1106D", "U+1106E", "U+1106F">>,
    <<"U+110F0", "U+110F1", "U+110F2", "U+110F3", "U+110F4", "U+110F5", "U+110F6", "U+110F7", "U+110F8", "U+110F9">>,
    <<"U+11136", "U+11137", "U+11138", "U+11139", "U+1113A", "U+1113B", "U+1113C", "U+1113D", "U+1113E", "U+1113F">>,
    <<"U+111D0", "U+111D1", "U+111D2", "U+111D3", "U+111D4", "U+111D5", "U+111D6", "U+111D7", "U+111D8", "U+111D9">>,
    <<"U+112F0", "U+112F1", "U+112F2", "U+112F3", "U+112F4", "U+112F5", "U+112F6", "U+112F7", "U+112F8", "U+112F9">>,
    <<"U+11450", "U+11451", "U+11452", "U+11453", "U+11454", "U+11455", "U+11456", "U+11457", "U+11458", "U+11459">>,
    <<"U+114D0", "U+114D1", "U+114D2", "U+114D3", "U+114D4", "U+114D5", "U+114D6", "U+114D7", "U+114D8", "U+114D9">>,
    <<"U+11650", "U+11651", "U+11652", "U+11653", "U+11654", "U+11655", "U+11656", "U+11657", "U+11658", "U+11659">>,
    <<"U+116C0", "U+116C1", "U+116C2", "U+116C3", "U+116C4", "U+116C5", "U+116C6", "U+116C7", "U+116C8", "U+116C9">>,
    <<"U+11730", "U+11731", "U+11732", "U+11733", "U+11734", "U+11735", "U+11736", "U+11737", "U+11738", "U+11739">>,
    <<"U+118E0", "U+118E1", "U+118E2", "U+118E3", "U+118E4", "U+118E5", "U+118E6", "U+118E7", "U+118E8", "U+118E9">>,
    <<"U+11950", "U+11951", "U+11952", "U+11953", "U+11954", "U+11955", "U+11956", "U+11957", "U+11958", "U+11959">>,
    <<"U+11C50", "U+11C51", "U+11C52", "U+11C53", "U+11C54", "U+11C55", "U+11C56", "U+11C57", "U+11C58", "U+11C59">>,
    <<"U+11D50", "U+11D51", "U+11D52", "U+11D53", "U+11D54", "U+11D55", "U+11D56", "U+11D57", "U+11D58", "U+11D59">>,
    <<"U+11DA0", "U+11DA1", "U+11DA2", "U+11DA3", "U+11DA4", "U+11DA5", "U+11DA6", "U+11DA7", "U+11DA8", "U+11DA9">>,
    <<"U+16A60", "U+16A61", "U+16A62", "U+16A63", "U+16A64", "U+16A65", "U+16A66", "U+16A67", "U+16A68", "U+16A69">>,
    <<"U+16AC0", "U+16AC1", "U+16AC2", "U+16AC3", "U+16AC4", "U+16AC5", "U+16AC6", "U+16AC7", "U+16AC8", "U+16AC9">>,
    <<"U+16B50", "U+16B51", "U+16B52", "U+16B53", "U+16B54", "U+16B55", "U+16B56", "U+16B57", "U+16B58", "U+16B59">>,
    <<"U+1D7CE", "U+1D7CF", "U+1D7D0", "U+1D7D1", "U+1D7D2", "U+1D7D3", "U+1D7D4", "U+1D7D5", "U+1D7D6", "U+1D7D7">>,
    <<"U+1D7D8", "U+1D7D9", "U+1D7DA", "U+1D7DB", "U+1D7DC", "U+1D7DD", "U+1D7DE", "U+1D7DF", "U+1D7E0", "U+1D7E1">>,
    <<"U+1D7E2", "U+1D7E3", "U+1D7E4", "U+1D7E5", "U+1D7E6", "U+1D7E7", "U+1D7E8", "U+1D7E9", "U+1D7EA", "U+1D7EB">>,
    <<"U+1D7EC", "U+1D7ED", "U+1D7EE", "U+1D7EF", "U+1D7F0", "U+1D7F1", "U+1D7F2", "U+1D7F3", "U+1D7F4", "U+1D7F5">>,
    <<"U+1D7F6", "U+1D7F7", "U+1D7F8", "U+1D7F9", "U+1D7FA", "U+1D7FB", "U+1D7FC", "U+1D7FD", "U+1D7FE", "U+1D7FF">>,
    <<"U+1E140", "U+1E141", "U+1E142", "U+1E143", "U+1E144", "U+1E145", "U+1E146", "U+1E147", "U+1E148", "U+1E149">>,
    <<"U+1E2F0", "U+1E2F1", "U+1E2F2", "U+1E2F3", "U+1E2F4", "U+1E2F5", "U+1E2F6", "U+1E2F7", "U+1E2F8", "U+1E2F9">>,
    <<"U+1E950", "U+1E951", "U+1E952", "U+1E953", "U+1E954", "U+1E955", "U+1E956", "U+1E957", "U+1E958", "U+1E959">>,
    <<"U+1FBF0", "U+1FBF1", "U+1FBF2", "U+1FBF3", "U+1FBF4", "U+1FBF5", "U+1FBF6", "U+1FBF7", "U+1FBF8", "U+1FBF9">> >>

DigitRows == <<Digits>> \o ScriptDigits

\* the characters int() reads as a decimal digit
DigitChars == {DigitRows[r][i] : r \in 1..Len(DigitRows), i \in 1..10}

IsDigit(ch) == ch \in DigitChars

\* the value of a digit: its place in the row of its script
DigitVal(ch) ==
    (CHOOSE i \in 1..10 : \E r \in 1..Len(DigitRows) : DigitRows[r][i] = ch) - 1

\* The whitespace int() ignores around the number: blank, \t, \n, \r, \f,
\* \v, and the spaces beyond ASCII (NEL, the no-break space, the Ogham space
\* mark, U+2000..U+200A, the line and paragraph separators, the narrow
\* no-break space, the medium mathematical space, the ideographic space).
IntSpace == {" ", "\t", "\n", "\r", "\f", "U+000B", "U+0085", "U+00A0",
             "U+1680", "U+2000", "U+2001", "U+2002", "U+2003", "U+2004",
             "U+2005", "U+2006", "U+2007", "U+2008", "U+2009", "U+200A",
             "U+2028", "U+2029", "U+202F", "U+205F", "U+3000"}

\* The whitespace str.strip() removes: the same and the separators
\* U+001C..U+001F.
StripSpace == IntSpace \union {"U+001C", "U+001D", "U+001E", "U+001F"}

RECURSIVE NatToStr(_)
\* str(n) for n >= 0
NatToStr(n) == IF n < 10 THEN <<Digits[n + 1]>>
               ELSE NatToStr(n \div 10) \o <<Digits[(n % 10) + 1]>>

\* str(i), as the f-strings of lines 79, 206 and 210 format an int
IntToStr(i) == IF i < 0 THEN <<"-">> \o NatToStr(-i) ELSE NatToStr(i)

RECURSIVE DigitsVal(_, _)
DigitsVal(s, acc) == IF s = <<>> THEN acc
                     ELSE DigitsVal(Tail(s), 10 * acc + DigitVal(Head(s)))

RECURSIVE StripLeft(_, _)
\* s without its leading characters of ws
StripLeft(s, ws) == IF s # <<>> /\ Head(s) \in ws THEN StripLeft(Tail(s), ws)
                    ELSE s

RECURSIVE StripRight(_, _)
\* s without its trailing characters of ws
StripRight(s, ws) ==
    IF s # <<>> /\ s[Len(s)] \in ws THEN StripRight(SubSeq(s, 1, Len(s) - 1), ws)
    ELSE s

\* s with the characters of ws removed at both ends
Strip(s, ws) == StripRight(StripLeft(s, ws), ws)

\* sys.int_max_str_digits: int() raises ValueError for a literal of more
\* digits (leading zeros counted, underscores not).
MaxStrDigits == 4300

\* The digits of an int literal: digits, with single underscores allowed
\* between two digits, and no more than MaxStrDigits of them.
DigitGroups(s) ==
    /\ s # <<>>
    /\ Len(SelectSeq(s, IsDigit)) <= MaxStrDigits
    /\ IsDigit(s[1]) /\ IsDigit(s[Len(s)])
    /\ \A i \in 1..Len(s) : IsDigit(s[i]) \/ s[i] = "_"
    /\ \A i \in 1..(Len(s) - 1) : ~(s[i] = "_" /\ s[i + 1] = "_")

\* the zeros of the scripts
ZeroChars == {DigitRows[r][1] : r \in 1..Len(DigitRows)}

\* the places of the digits of d that are not a zero
NonZeroPlaces(d) == {i \in 1..Len(d) : d[i] \notin ZeroChars}

\* the digits of d from its first non-zero digit on
Significant(d) ==
    IF NonZeroPlaces(d) = {} THEN <<>>
    ELSE SubSeq(d, CHOOSE i \in NonZeroPlaces(d) : \A j \in NonZeroPlaces(d) : i <= j,
                Len(d))

\* the value of the digits of a literal
LiteralVal(s) == DigitsVal(Significant(SelectSeq(s, IsDigit)), 0)

\* the value of a stripped literal: sign and digits
SignedVal(t) ==
    IF DigitGroups(t) THEN [ok |-> TRUE, val |-> LiteralVal(t)]
    ELSE IF t # <<>> /\ Head(t) \in {"-", "+"} /\ DigitGroups(Tail(t))
    THEN [ok |-> TRUE,
          val |-> IF Head(t) = "-" THEN 0 - LiteralVal(Tail(t))
                  ELSE LiteralVal(Tail(t))]
    ELSE [ok |-> FALSE, val |-> 0]

\* int(s): whitespace around the literal is ignored, then an optional sign
\* and decimal digits; anything else raises ValueError (ok = FALSE).
ParseInt(s) == SignedVal(Strip(s, IntSpace))

RECURSIVE SplitFrom(_, _)
\* s.split('_') where cur is the segment read so far
SplitFrom(s, cur) ==
    IF s = <<>> THEN <<cur>>
    ELSE IF Head(s) = "_" THEN <<cur>> \o SplitFrom(Tail(s), <<>>)
         ELSE SplitFrom(Tail(s), Append(cur, Head(s)))

Split(s) == SplitFrom(s, <<>>)

\* An exact match instead of a prefix match.
StartsWithExact(s, prefix) == s = prefix

\* s.startswith(prefix)
StartsWith(s, prefix) ==
    /\ Len(prefix) <= Len(s)
    /\ SubSeq(s, 1, Len(prefix)) = prefix

LowerCase == <<"a", "b", "c", "d", "e", "f", "g", "h", "i", "j", "k", "l", "m",
               "n", "o", "p", "q", "r", "s", "t", "u", "v", "w", "x", "y", "z",
               "U+0131", "U+017F">>

UpperCase == <<"A", "B", "C", "D", "E", "F", "G", "H", "I", "J", "K", "L", "M",
               "N", "O", "P", "Q", "R", "S", "T", "U", "V", "W", "X", "Y", "Z",
               "I", "S">>

\* str.upper() of one character, for the characters whose upper case is an
\* ASCII letter: a..z, the dotless i and the long s.  No other character has
\* an upper case that is a key of GRADE_MAPPING.
Upper(ch) ==
    IF \E i \in 1..Len(LowerCase) : LowerCase[i] = ch
    THEN UpperCase[CHOOSE i \in 1..Len(LowerCase) : LowerCase[i] = ch]
    ELSE ch

UpperStr(s) == [i \in 1..Len(s) |-> Upper(s[i])]

-----------------------------------------------------------------------------
(* Floats: IEEE 754 binary64, as Python's float *)

\* A float is [neg, m, e].  m holds the 53 bits of the significand as four
\* digits of 15 bits, the first bit of m[1] being 1 and the last 7 bits of
\* m[4] being 0; the value is (-1)^neg * (m read in base 2^15) * 2^e.  Zero
\* has m = <<>>.  The values of the program stay far from the subnormal
\* range and from overflow.

Pow2(k) == <<1, 2, 4, 8, 16, 32, 64, 128, 256, 512, 1024, 2048, 4096, 8192,
             16384, 32768>>[k + 1]

FloatZero == [neg |-> FALSE, m |-> <<>>, e |-> 0]

Zeros(n) == [i \in 1..n |-> 0]

RECURSIVE LimbsOfNat(_)
\* the digits of n in base 2^15, most significant first; <<>> for 0
LimbsOfNat(n) ==
    IF n = 0 THEN <<>>
    ELSE Append(LimbsOfNat(n \div Pow2(15)), n % Pow2(15))

\* the number of bits of a digit
BitLen(d) == CHOOSE k \in 0..15 : d < Pow2(k) /\ (k = 0 \/ d >= Pow2(k - 1))

RECURSIVE DropZeroLimbs(_)
DropZeroLimbs(L) ==
    IF L # <<>> /\ Head(L) = 0 THEN DropZeroLimbs(Tail(L)) ELSE L

\* L * 2^z for 0 <= z < 15, when the first z bits of L[1] are 0
ShiftLeft(L, z) ==
    [i \in 1..Len(L) |->
        (L[i] % Pow2(15 - z)) * Pow2(z)
        + (IF i < Len(L) THEN L[i + 1] \div Pow2(15 - z) ELSE 0)]

RECURSIVE AddLimbs(_, _, _, _)
\* a + b + carry for digit strings of one length, from position i down to
\* 1: one digit more than a
AddLimbs(a, b, i, carry) ==
    IF i = 0 THEN <<carry>>
    ELSE Append(AddLimbs(a, b, i - 1, (a[i] + b[i] + carry) \div Pow2(15)),
                (a[i] + b[i] + carry) % Pow2(15))

RECURSIVE DivLimbs(_, _, _, _)
\* the digits of the quotient of L by n (0 < n < 2^16), and the remainder
DivLimbs(L, n, rem, quot) ==
    IF L = <<>> THEN [q |-> quot, r |-> rem]
    ELSE DivLimbs(Tail(L), n, (rem * Pow2(15) + Head(L)) % n,
                  Append(quot, (rem * Pow2(15) + Head(L)) \div n))

NonZero(L) == \E i \in 1..Len(L) : L[i] # 0

\* the significand cut after 53 bits
Truncated(L) == <<L[1], L[2], L[3], L[4] - (L[4] % 128)>>

\* Round to nearest, ties to even.  L has five digits or more and its first
\* bit is 1; sticky tells of a remainder below the last digit of L.
RoundsUp(L, sticky) ==
    /\ (L[4] \div 64) % 2 = 1
    /\ \/ sticky
       \/ L[4] % 64 # 0
       \/ NonZero(SubSeq(L, 5, Len(L)))
       \/ (L[4] \div 128) % 2 = 1

RoundNormal(neg, L, e, sticky) ==
    IF RoundsUp(L, sticky)
    THEN IF Truncated(L) = <<32767, 32767, 32767, 32640>>
         THEN [neg |-> neg, m |-> <<16384, 0, 0, 0>>,
               e |-> e + 15 * (Len(L) - 4) + 1]
         ELSE [neg |-> neg,
               m |-> Tail(AddLimbs(Truncated(L), <<0, 0, 0, 128>>, 4, 0)),
               e |-> e + 15 * (Len(L) - 4)]
    ELSE [neg |-> neg, m |-> Truncated(L), e |-> e + 15 * (Len(L) - 4)]

\* L (first bit 1) with zero digits added up to five digits
RoundPadded(neg, L, e, sticky) ==
    IF Len(L) < 5
    THEN RoundNormal(neg, L \o Zeros(5 - Len(L)), e - 15 * (5 - Len(L)),
                     sticky)
    ELSE RoundNormal(neg, L, e, sticky)

\* L without leading zero digits: its first bit is brought to the front
RoundStripped(neg, L, e, sticky) ==
    IF L = <<>> THEN FloatZero
    ELSE RoundPadded(neg, ShiftLeft(L, 15 - BitLen(L[1])),
                     e - (15 - BitLen(L[1])), sticky)

\* the float nearest to L * 2^e (plus a remainder when sticky)
RoundLimbs(neg, L, e, sticky) == RoundStripped(neg, DropZeroLimbs(L), e, sticky)

\* float(i)
FloatOfInt(i) ==
    IF i < 0 THEN RoundLimbs(TRUE, LimbsOfNat(0 - i), 0, FALSE)
    ELSE RoundLimbs(FALSE, LimbsOfNat(i), 0, FALSE)

\* x.m * 2^d as digits, for d >= 0
Scaled(x, d) ==
    ShiftLeft(<<0>> \o x.m \o Zeros(d \div 15), d % 15)

PadLeft(L, n) == Zeros(n - Len(L)) \o L

\* x + y for floats that are not negative, x.e >= y.e
FloatAddOrdered(x, y) ==
    IF x.e - y.e > 5 * 15 THEN x
    ELSE RoundLimbs(FALSE,
                    AddLimbs(Scaled(x, x.e - y.e),
                             PadLeft(y.m, 5 + (x.e - y.e) \div 15),
                             5 + (x.e - y.e) \div 15, 0),
                    y.e, FALSE)

\* x + y for floats that are not negative (the scores are not)
FloatAdd(x, y) ==
    IF x.m = <<>> THEN y
    ELSE IF y.m = <<>> THEN x
    ELSE IF x.e >= y.e THEN FloatAddOrdered(x, y)
    ELSE FloatAddOrdered(y, x)

RoundQuotient(neg, d, e) == RoundLimbs(neg, d.q, e, d.r # 0)

\* x / n for an int n with 0 < n < 2^16
FloatDiv(x, n) ==
    IF x.m = <<>> THEN x
    ELSE RoundQuotient(x.neg, DivLimbs(x.m \o <<0, 0>>, n, 0, <<>>),
                       x.e - 2 * 15)

RECURSIVE FloatSum(_, _)
\* sum(scores), left to right from acc
FloatSum(scores, acc) ==
    IF scores = <<>> THEN acc
    ELSE FloatSum(Tail(scores), FloatAdd(acc, Head(scores)))

\* a <= b digit by digit, for two significands
LimbsLeq(a, b) ==
    \/ a = b
    \/ \E i \in 1..4 : a[i] < b[i] /\ \A j \in 1..(i - 1) : a[j] = b[j]

\* |a| <= |b|
MagLeq(a, b) ==
    \/ a.m = <<>>
    \/ b.m # <<>> /\ (a.e < b.e \/ (a.e = b.e /\ LimbsLeq(a.m, b.m)))

IsNegative(a) == a.neg /\ a.m # <<>>

\* a <= b
FloatLeq(a, b) ==
    IF IsNegative(a) THEN ~IsNegative(b) \/ MagLeq(b, a)
    ELSE ~IsNegative(b) /\ MagLeq(a, b)

\* the number of bits of a before the binary point, a > 0
IntBits(a) == 60 + a.e

\* floor(a) for 1/2 <= a < 2^14
FloorOf(a) == a.m[1] \div Pow2(15 - IntBits(a))

\* a - floor(a) against 1/2: -1 below, 0 equal, 1 above
HalfCmp(a) ==
    IF a.m[1] % Pow2(15 - IntBits(a)) < Pow2(15 - IntBits(a) - 1) THEN 0 - 1
    ELSE IF /\ a.m[1] % Pow2(15 - IntBits(a)) = Pow2(15 - IntBits(a) - 1)
            /\ a.m[2] = 0 /\ a.m[3] = 0 /\ a.m[4] = 0
         THEN 0
         ELSE 1

-----------------------------------------------------------------------------
(* Dicts *)

EmptyMap == [k \in {} |-> 0]

\* d[k] = v on a dict that is only looked up
MapSet(d, k, v) == [x \in DOMAIN d \union {k} |-> IF x = k THEN v ELSE d[x]]

\* the keys of an ordered dict
Keys(d) == {d[i].k : i \in 1..Len(d)}

\* An assignment that drops the other entries.
DictSetDropping(d, k, v) == <<[k |-> k, v |-> v]>>

\* d[k] of an ordered dict that has the key
DictGet(d, k) == d[CHOOSE i \in 1..Len(d) : d[i].k = k].v

\* d[k] = v on an ordered dict: a present key keeps its place
DictSet(d, k, v) ==
    IF k \in Keys(d)
    THEN [i \in 1..Len(d) |-> IF d[i].k = k THEN [k |-> k, v |-> v] ELSE d[i]]
    ELSE Append(d, [k |-> k, v |-> v])

-----------------------------------------------------------------------------
(* The catalog.  A page is [page_key, title, collections]; a collection is *)
(* [collection_id, questions]; a question is [question_id, options]; an    *)
(* optional field (title, question_id) is [has, val].                      *)

None == [has |-> FALSE, val |-> <<>>]

Some(s) == [has |-> TRUE, val |-> s]

PageKeys(qf) == {qf[i].page_key : i \in 1..Len(qf)}

\* self.question_files[page_key]
PageOf(qf, pk) == qf[CHOOSE i \in 1..Len(qf) : qf[i].page_key = pk]

\* page_data.get('questionnaire_info', {}).get('title', page_key)
TitleOf(pg) == IF pg.title.has THEN pg.title.val ELSE pg.page_key

-----------------------------------------------------------------------------
(* Grade codec *)

LETTER_MAPPING == <<"A", "B", "C", "D", "E", "F", "G">>

\* GRADE_MAPPING: the grade of a letter of the table
GRADE_MAPPING(ch) == (CHOOSE i \in 1..7 : LETTER_MAPPING[i] = ch) - 1

InGradeMapping(s) == Len(s) = 1 /\ \E i \in 1..7 : LETTER_MAPPING[i] = s[1]

\* A lookup whose default is 7 instead of 0.
option_id_to_grade_default(option_id) ==
    IF InGradeMapping(UpperStr(option_id))
    THEN GRADE_MAPPING(UpperStr(option_id)[1]) ELSE 7

\* GRADE_MAPPING.get(option_id.upper(), 0)
option_id_to_grade(option_id) ==
    IF InGradeMapping(UpperStr(option_id))
    THEN GRADE_MAPPING(UpperStr(option_id)[1]) ELSE 0

\* int(round(grade)) of Python 3 for a grade 0 <= grade < 2^14: the nearest
\* integer, a tie going to the even neighbour.
RoundHalfEven(g) ==
    IF g.m = <<>> \/ IntBits(g) < 0 THEN 0
    ELSE IF HalfCmp(g) < 0 THEN FloorOf(g)
    ELSE IF HalfCmp(g) > 0 THEN FloorOf(g) + 1
    ELSE IF FloorOf(g) % 2 = 0 THEN FloorOf(g) ELSE FloorOf(g) + 1

\* Rounding with ties away from zero, for a grade 0 <= grade < 2^14.
RoundHalfAway(g) ==
    IF g.m = <<>> \/ IntBits(g) < 0 THEN 0
    ELSE IF HalfCmp(g) < 0 THEN FloorOf(g)
    ELSE FloorOf(g) + 1

\* A conversion that rounds ties away from zero.
grade_to_letter_half_away(grade) ==
    IF FloatLeq(FloatOfInt(0), grade) /\ FloatLeq(grade, FloatOfInt(6))
    THEN LETTER_MAPPING[RoundHalfAway(grade) + 1]
    ELSE "A"

\* LETTER_MAPPING[int(round(grade))] if 0 <= grade <= 6, else 'A'
grade_to_letter(grade) ==
    IF FloatLeq(FloatOfInt(0), grade) /\ FloatLeq(grade, FloatOfInt(6))
    THEN LETTER_MAPPING[RoundHalfEven(grade) + 1]
    ELSE "A"

-----------------------------------------------------------------------------
(* Score aggregator *)

\* question.get('question_id', f"{collection_id}_{question_index}")
QuestionIdOrFallback(q, collection_id, question_index) ==
    IF q.question_id.has THEN q.question_id.val
    ELSE collection_id \o U \o IntToStr(question_index)

\* The collections of a page that the loop of lines 75-82 stops at for
\* (collection_id, question_index): the first one with that id and
\* question_index < len(questions).
MatchingCollections(pg, collection_id, question_index) ==
    {i \in 1..Len(pg.collections) :
        /\ pg.collections[i].collection_id = collection_id
        /\ question_index < Len(pg.collections[i].questions)}

\* One iteration of the loop over answers.items(): [err, scores].
\* A negative index at or above -len counts from the end (Python indexing);
\* below -len the subscript raises IndexError; a third segment int() does
\* not accept raises ValueError.
IndicatorStep(qf, scores, rec) ==
    LET parts == Split(rec.k) IN
    IF Len(parts) < 3 THEN [err |-> "none", scores |-> scores]
    ELSE
    LET page_key      == parts[1]
        collection_id == parts[2]
        parsed        == ParseInt(parts[3])
        idx           == parsed.val
    IN
    IF ~parsed.ok THEN [err |-> "ValueError", scores |-> scores]
    ELSE IF page_key \notin PageKeys(qf) THEN [err |-> "none", scores |-> scores]
    ELSE
    LET pg == PageOf(qf, page_key)
        m  == MatchingCollections(pg, collection_id, idx)
    IN
    IF m = {} THEN [err |-> "none", scores |-> scores]
    ELSE
    LET c   == pg.collections[CHOOSE i \in m : \A j \in m : i <= j]
        n   == Len(c.questions)
    IN
    IF idx < 0 - n THEN [err |-> "IndexError", scores |-> scores]
    ELSE
    LET q   == c.questions[IF idx < 0 THEN n + idx + 1 ELSE idx + 1]
        qid == QuestionIdOrFallback(q, collection_id, idx)
    IN  [err |-> "none",
         scores |-> MapSet(scores, qid, option_id_to_grade(rec.v.option_id))]

RECURSIVE IndicatorLoop(_, _, _)
\* an exception ends the loop, otherwise it goes on with the next item
IndicatorNext(qf, r, rest) ==
    IF r.err # "none" THEN r ELSE IndicatorLoop(qf, r.scores, rest)

IndicatorLoop(qf, scores, rest) ==
    IF rest = <<>> THEN [err |-> "none", scores |-> scores]
    ELSE IndicatorNext(qf, IndicatorStep(qf, scores, Head(rest)), Tail(rest))

\* _calculate_indicator_scores: [err, scores]
calculate_indicator_scores(qf, ans) == IndicatorLoop(qf, EmptyMap, ans)

RECURSIVE CollectQuestionScores(_, _)
\* lines 98-102: the scores of the questions whose question_id is present,
\* non-empty and in indicator_scores
CollectQuestionScores(questions, indicator_scores) ==
    IF questions = <<>> THEN <<>>
    ELSE LET q == Head(questions)
             rest == CollectQuestionScores(Tail(questions), indicator_scores)
         IN  IF q.question_id.has /\ q.question_id.val # <<>>
                /\ q.question_id.val \in DOMAIN indicator_scores
             THEN <<indicator_scores[q.question_id.val]>> \o rest
             ELSE rest

RECURSIVE AllIndicatorScores(_)
AllIndicatorScores(f) ==
    IF DOMAIN f = {} THEN <<>>
    ELSE LET k == CHOOSE x \in DOMAIN f : TRUE
         IN  <<f[k]>> \o
             AllIndicatorScores([x \in DOMAIN f \ {k} |-> f[x]])

\* A collection pass that averages every indicator score, whichever
\* collection the question belongs to.
CollectionScoresUnfiltered(c, indicator_scores) ==
    AllIndicatorScores(indicator_scores)

\* the list `scores` of one collection
CollectionScores(c, indicator_scores) ==
    CollectQuestionScores(c.questions, indicator_scores)

RECURSIVE IntSum(_)
\* sum(scores) of a list of ints
IntSum(scores) == IF scores = <<>> THEN 0 ELSE Head(scores) + IntSum(Tail(scores))

\* sum(scores) / len(scores) of line 105: the true division of two ints
CriterionMean(scores) == FloatDiv(FloatOfInt(IntSum(scores)), Len(scores))

RECURSIVE CriterionCollections(_, _, _)
\* the inner loop of _calculate_criterion_scores over one page's collections
CriterionCollections(colls, indicator_scores, acc) ==
    IF colls = <<>> THEN acc
    ELSE LET c      == Head(colls)
             scores == CollectionScores(c, indicator_scores)
         IN  CriterionCollections(Tail(colls), indicator_scores,
                 IF scores # <<>> THEN MapSet(acc, c.collection_id, CriterionMean(scores))
                 ELSE acc)

RECURSIVE CriterionPages(_, _, _)
CriterionPages(qf, indicator_scores, acc) ==
    IF qf = <<>> THEN acc
    ELSE CriterionPages(Tail(qf), indicator_scores,
             CriterionCollections(Head(qf).collections, indicator_scores, acc))

\* _calculate_criterion_scores
calculate_criterion_scores(qf, indicator_scores) ==
    CriterionPages(qf, indicator_scores, EmptyMap)

RECURSIVE CollectCriterionScores(_, _)
\* lines 118-122
CollectCriterionScores(colls, criterion_scores) ==
    IF colls = <<>> THEN <<>>
    ELSE LET rest == CollectCriterionScores(Tail(colls), criterion_scores)
         IN  IF Head(colls).collection_id \in DOMAIN criterion_scores
             THEN <<criterion_scores[Head(colls).collection_id]>> \o rest
             ELSE rest

\* A value pass that divides by the number of collections of the page.
ValueMeanAllCollections(pg, scores) ==
    FloatDiv(FloatSum(scores, FloatOfInt(0)), Len(pg.collections))

\* sum(scores) / len(scores) of line 125: the floats are added to 0 from the
\* first to the last, each sum rounded, and the total is divided by the count
ValueMean(pg, scores) == FloatDiv(FloatSum(scores, FloatOfInt(0)), Len(scores))

RECURSIVE ValuePages(_, _, _)
ValuePages(qf, criterion_scores, acc) ==
    IF qf = <<>> THEN acc
    ELSE LET pg     == Head(qf)
             scores == CollectCriterionScores(pg.collections, criterion_scores)
         IN  ValuePages(Tail(qf), criterion_scores,
                 IF scores # <<>> THEN MapSet(acc, TitleOf(pg), ValueMean(pg, scores))
                 ELSE acc)

\* _calculate_value_scores
calculate_value_scores(qf, criterion_scores) ==
    ValuePages(qf, criterion_scores, EmptyMap)

ScoreData(i, c, v) ==
    [status |-> "ok", indicator_scores |-> i, criterion_scores |-> c,
     value_scores |-> v]

Raised(e) ==
    [status |-> e, indicator_scores |-> EmptyMap, criterion_scores |-> EmptyMap,
     value_scores |-> EmptyMap]

NoResult == Raised("none")

\* lines 51-53: the value pass and the ScoreData the call returns
ScoresOfCriteria(qf, indicator_scores, criterion_scores) ==
    ScoreData(indicator_scores, criterion_scores,
              calculate_value_scores(qf, criterion_scores))

\* line 50 onwards: an exception of the indicator pass leaves the call,
\* otherwise the criterion pass runs on the indicator scores
ScoresOfIndicators(qf, ind) ==
    IF ind.err # "none" THEN Raised(ind.err)
    ELSE ScoresOfCriteria(qf, ind.scores,
                          calculate_criterion_scores(qf, ind.scores))

\* The three passes of calculate_all_scores, lines 43-53 and 59: what the
\* call returns (status "ok") or the exception it raises.
Scores(qf, ans) ==
    IF ans = <<>> THEN ScoreData(EmptyMap, EmptyMap, EmptyMap)
    ELSE ScoresOfIndicators(qf, calculate_indicator_scores(qf, ans))

\* Lines 56 and 59: [ret, cache] for the computed r.  Line 56 writes the
\* cache only on the path that computes.
Returned(r, cache, ans) ==
    [ret |-> r,
     cache |-> IF ans # <<>> /\ r.status = "ok" THEN r ELSE cache]

\* A version that returns the cached maps when there are any.
calculate_all_scores_cached(qf, cache, ans) ==
    IF cache.status = "ok" THEN [ret |-> cache, cache |-> cache]
    ELSE Returned(Scores(qf, ans), cache, ans)

\* calculate_all_scores on a processor whose _score_cache is cache:
\* [ret, cache].
calculate_all_scores(qf, cache, ans) == Returned(Scores(qf, ans), cache, ans)

-----------------------------------------------------------------------------
(* Progress tracker *)

\* lines 140-141: the keys that start with f"{page_name}_{collection_id}"
CollectionAnswered(ans, page_name, collection_id) ==
    Cardinality({i \in 1..Len(ans) :
                    StartsWith(ans[i].k, page_name \o U \o collection_id)})

RECURSIVE PageTotals(_, _, _)
\* lines 137-144: [total, answered] of one page
PageTotals(colls, ans, page_name) ==
    IF colls = <<>> THEN [total |-> 0, answered |-> 0]
    ELSE LET r == PageTotals(Tail(colls), ans, page_name) IN
         [total    |-> Len(Head(colls).questions) + r.total,
          answered |-> CollectionAnswered(ans, page_name, Head(colls).collection_id)
                       + r.answered]

\* answered / total if total > 0 else 0 (the int 0 and the float 0.0 are one
\* value here, as they are equal in Python)
Ratio(answered, total) ==
    IF total > 0 THEN FloatDiv(FloatOfInt(answered), total) ELSE FloatOfInt(0)

Stats(t) == [total |-> t.total, answered |-> t.answered,
             progress |-> Ratio(t.answered, t.total)]

RECURSIVE SumTotals(_, _)
SumTotals(qf, ans) ==
    IF qf = <<>> THEN [total |-> 0, answered |-> 0]
    ELSE LET t == PageTotals(Head(qf).collections, ans, Head(qf).page_key)
             r == SumTotals(Tail(qf), ans)
         IN  [total |-> t.total + r.total, answered |-> t.answered + r.answered]

\* the key of line 155
OverallKey == <<"o", "v", "e", "r", "a", "l", "l">>

RECURSIVE ProgressPages(_, _, _)
\* the loop of lines 134-153: progress_data[page_name] = {...}, page by page
ProgressPages(qf, ans, progress_data) ==
    IF qf = <<>> THEN progress_data
    ELSE ProgressPages(Tail(qf), ans,
             DictSet(progress_data, Head(qf).page_key,
                     Stats(PageTotals(Head(qf).collections, ans, Head(qf).page_key))))

\* get_progress_data: the dict progress_data, one entry per page key and the
\* entry 'overall', which line 155 writes last and over the entry of a page
\* whose key is 'overall'.  SumTotals is taken over the whole catalog.
get_progress_data(qf, ans) ==
    DictSet(ProgressPages(qf, ans, <<>>), OverallKey, Stats(SumTotals(qf, ans)))

-----------------------------------------------------------------------------
(* Inputs: catalogs *)

Opt(id, text) == [option_id |-> id, option_text |-> text]

\* Two options that are shown and two that line 196 filters out (empty
\* text, and text that strip() empties).
StdOptions == <<Opt(<<"B">>, <<"l", "o">>), Opt(<<"E">>, <<"h", "i">>),
                Opt(<<"C">>, <<>>), Opt(<<"G">>, <<" ", "\t">>)>>

Qn(id) == [question_id |-> Some(id), options |-> StdOptions]

QnNoId == [question_id |-> None, options |-> StdOptions]

\* a question with its own answer options
QnWith(id, options) == [question_id |-> Some(id), options |-> options]

Coll(id, qs) == [collection_id |-> id, questions |-> qs]

Pg(key, title, colls) == [page_key |-> key, title |-> title, collections |-> colls]

I1 == <<"I", "1">>
I2 == <<"I", "2">>
I3 == <<"I", "3">>
I4 == <<"I", "4">>

\* Identifiers all distinct, every question with an id.
CatPlain ==
    <<Pg(<<"P">>, Some(<<"T">>), <<Coll(<<"C">>, <<Qn(I1), Qn(I2)>>),
                                   Coll(<<"D">>, <<Qn(I3)>>)>>),
      Pg(<<"Q">>, Some(<<"V">>), <<Coll(<<"E">>, <<Qn(I4)>>)>>)>>

\* A question without question_id, a page without title, a collection
\* without questions.
CatNoId ==
    <<Pg(<<"P">>, None, <<Coll(<<"C">>, <<QnNoId, Qn(I1)>>),
                          Coll(<<"D">>, <<>>)>>),
      Pg(<<"Q">>, Some(<<"V">>), <<Coll(<<"E">>, <<Qn(I2)>>)>>)>>

\* The same collection id in two questionnaires (ids are unique within a
\* questionnaire only).
CatSharedCid ==
    <<Pg(<<"P">>, Some(<<"T">>), <<Coll(<<"C">>, <<Qn(I1)>>),
                                   Coll(<<"D">>, <<Qn(I2)>>)>>),
      Pg(<<"Q">>, Some(<<"V">>), <<Coll(<<"C">>, <<Qn(I3)>>)>>)>>

\* Two questionnaires with the same display title.
CatSharedTitle ==
    <<Pg(<<"P">>, Some(<<"T">>), <<Coll(<<"C">>, <<Qn(I1), Qn(I2)>>)>>),
      Pg(<<"Q">>, Some(<<"T">>), <<Coll(<<"D">>, <<Qn(I3)>>)>>)>>

\* A collection id that is a prefix of another one of the same page.
CatPrefix ==
    <<Pg(<<"P">>, Some(<<"T">>), <<Coll(<<"C">>, <<Qn(I1)>>),
                                   Coll(<<"C", "D">>, <<Qn(I2), Qn(I3)>>)>>)>>

\* The same question id in two questionnaires.
CatSharedQid ==
    <<Pg(<<"P">>, Some(<<"T">>), <<Coll(<<"C">>, <<Qn(I1)>>),
                                   Coll(<<"D">>, <<Qn(I2)>>)>>),
      Pg(<<"Q">>, Some(<<"V">>), <<Coll(<<"E">>, <<Qn(I1)>>)>>)>>

\* A page key with an underscore: the key written for position 0 of
\* collection "1" of page "P_X" reads as position 1 of collection X of page P.
CatUnderscore ==
    <<Pg(<<"P">>, Some(<<"T">>), <<Coll(<<"X">>, <<Qn(I1), Qn(I2)>>)>>),
      Pg(<<"P", "_", "X">>, Some(<<"V">>), <<Coll(<<"1">>, <<Qn(I3)>>)>>)>>

\* A question id that equals the fallback id of a question without one.
CatFallbackClash ==
    <<Pg(<<"P">>, Some(<<"T">>), <<Coll(<<"C">>, <<QnNoId, Qn(I1)>>)>>),
      Pg(<<"Q">>, Some(<<"V">>), <<Coll(<<"E">>, <<Qn(<<"C", "_", "0">>)>>)>>)>>

\* Two collections of different pages with one pointer key: "P" + "_" +
\* "X_1" and "P_X" + "_" + "1" are both "P_X_1"; the collections differ in
\* length.  Page keys differ and collection ids are unique within each page.
CatPointerClash ==
    <<Pg(<<"P">>, Some(<<"T">>),
         <<Coll(<<"X", "_", "1">>, <<Qn(I1), Qn(I2)>>)>>),
      Pg(<<"P", "_", "X">>, Some(<<"V">>), <<Coll(<<"1">>, <<Qn(I3)>>)>>)>>

\* A collection of three questions, two of them with one question id: two
\* answers give a criterion score in thirds, which no float holds exactly.
CatThirds ==
    <<Pg(<<"P">>, Some(<<"T">>), <<Coll(<<"C">>, <<Qn(I1)>>),
                                   Coll(<<"D">>, <<Qn(I1), Qn(I1), Qn(I2)>>)>>)>>

\* A questionnaire whose page key is the key of the totals.
CatOverall ==
    <<Pg(OverallKey, Some(<<"T">>), <<Coll(<<"C">>, <<Qn(I1), Qn(I2)>>)>>),
      Pg(<<"Q">>, Some(<<"V">>), <<Coll(<<"E">>, <<Qn(I3)>>)>>)>>

\* Two collections of one page with the same collection id; the question of
\* the first one has no answer options.
CatDupCid ==
    <<Pg(<<"P">>, Some(<<"T">>), <<Coll(<<"C">>, <<QnWith(I1, <<>>)>>),
                                   Coll(<<"C">>, <<Qn(I2)>>)>>)>>

\* Two options of one question with the same display text: "(B) -- " and
\* "x) -- y" give what "(B) -- x) -- " and "y" give.
CatTextClash ==
    <<Pg(<<"P">>, Some(<<"T">>),
         <<Coll(<<"C">>,
                <<QnWith(I1, <<Opt(<<"B">>, <<"x", ")", " ", "-", "-", " ", "y">>),
                               Opt(<<"B", ")", " ", "-", "-", " ", "x">>, <<"y">>)>>),
                  Qn(I2)>>)>>)>>

\* A question that shows three options, and one with the same option twice.
CatOptions ==
    <<Pg(<<"P">>, Some(<<"T">>),
         <<Coll(<<"C">>,
                <<QnWith(I1, <<Opt(<<"A">>, <<"n", "o">>), Opt(<<"D">>, <<"l", "o">>),
                               Opt(<<"G">>, <<"h", "i">>)>>),
                  QnWith(I2, <<Opt(<<"F">>, <<"l", "o">>),
                               Opt(<<"F">>, <<"l", "o">>)>>)>>)>>)>>

Catalogs == {CatPlain, CatNoId, CatSharedCid, CatSharedTitle, CatPrefix,
             CatSharedQid, CatUnderscore, CatFallbackClash, CatThirds,
             CatOverall}

\* The collections of a catalog: (page index, collection index).
CollPlaces(qf) ==
    UNION {{<<i, j>> : j \in 1..Len(qf[i].collections)} : i \in 1..Len(qf)}

\* The places of a catalog: (page index, collection index, question index).
Places(qf) ==
    UNION {{<<cp[1], cp[2], n>> :
               n \in 0..(Len(qf[cp[1]].collections[cp[2]].questions) - 1)} :
           cp \in CollPlaces(qf)}

\* f"{page_key}_{collection_id}_{question_key}" of line 210
AnswerKey(page_key, collection_id, question_key) ==
    page_key \o U \o collection_id \o U \o IntToStr(question_key)

KeyAt(qf, pl) ==
    AnswerKey(qf[pl[1]].page_key, qf[pl[1]].collections[pl[2]].collection_id, pl[3])

\* The keys the data model describes: a page key, one of its collection
\* ids, a position in that collection.
ModelKeys(qf) == {KeyAt(qf, pl) : pl \in Places(qf)}

-----------------------------------------------------------------------------
(* Inputs: answer maps *)

\* Keys that resolve to nothing or not as written, built on the first
\* collection of the first page.
OddKeys(qf) ==
    LET pk  == qf[1].page_key
        cid == qf[1].collections[1].collection_id
        n   == Len(qf[1].collections[1].questions)
    IN  { pk \o U \o cid,                                \* two segments
          <<"Z">> \o U \o cid \o U \o <<"0">>,          \* no such page
          pk \o U \o <<"Z">> \o U \o <<"0">>,           \* no such collection
          pk \o U \o cid \o U \o IntToStr(n),           \* past the end
          pk \o U \o cid \o U \o <<"-", "1">>,          \* negative
          pk \o U \o cid \o U \o <<"x">>,               \* not a number
          pk \o U \o cid \o U \o <<" ", "0">>,          \* blank, then 0
          pk \o U \o cid \o U \o <<"U+FF10">> }         \* a fullwidth 0

\* The catalog whose answer maps take the odd keys too; the other catalogs
\* differ from it in their identifiers and take the keys of the data model.
OddKeyCatalogs == {CatNoId}

KeyPool(qf) ==
    ModelKeys(qf) \union (IF qf \in OddKeyCatalogs THEN OddKeys(qf) ELSE {})

\* Option ids as answer records carry them: in the table, lower case, and
\* outside the table.
OptionIds == {<<"B">>, <<"g">>, <<"Z">>}

MaxAnswers == 2

RECURSIVE DictsOver(_, _, _)
\* the ordered dicts of at most n entries with keys in ks and values in vs
DictsOver(ks, vs, n) ==
    IF n = 0 THEN {<<>>}
    ELSE LET shorter == DictsOver(ks, vs, n - 1) IN
         shorter \union
         {Append(d, [k |-> k, v |-> v]) :
             <<d, k, v>> \in {t \in shorter \X ks \X vs :
                                 Len(t[1]) = n - 1 /\ t[2] \notin Keys(t[1])}}

Records == {Opt(id, <<"t">>) : id \in OptionIds}

AnswerMaps(qf) == DictsOver(KeyPool(qf), Records, MaxAnswers)

-----------------------------------------------------------------------------
(* The processor called on an answer map *)

\* get_progress_data has not been called
NoProgress == <<>>

NoProbe == [set |-> FALSE, ans |-> <<>>, ret |-> NoResult, between |-> FALSE]

InitScore ==
    /\ question_files \in Catalogs
    /\ answers \in AnswerMaps(question_files)
    /\ current_question = EmptyMap
    /\ page = 0
    /\ lastOp = "init"
    /\ result = NoResult
    /\ progress = NoProgress
    /\ score_cache = NoResult
    /\ probe = NoProbe
    /\ answers2 = <<>>
    /\ result2 = NoResult
    /\ lines = <<>>
    /\ shown = EmptyMap

\* processor.calculate_all_scores(answers)
CalculateAllScores ==
    /\ LET r == calculate_all_scores(question_files, score_cache, answers) IN
       /\ result' = r.ret
       /\ score_cache' = r.cache
    /\ lastOp' = "calculate"
    /\ UNCHANGED <<question_files, answers, current_question, page, progress,
                   probe, answers2, result2, lines, shown>>

\* processor.get_progress_data(answers)
GetProgressData ==
    /\ progress' = get_progress_data(question_files, answers)
    /\ lastOp' = "progress"
    /\ UNCHANGED <<question_files, answers, current_question, page, result,
                   score_cache, probe, answers2, result2, lines, shown>>

NextScore == CalculateAllScores \/ GetProgressData

SpecScore == InitScore /\ [][NextScore]_vars

-----------------------------------------------------------------------------
(* Properties of the scores of one call *)

RECURSIVE SumInt(_, _)
\* the sum of the ints f[x], x in the finite set S
SumInt(S, f) ==
    IF S = {} THEN 0
    ELSE LET x == CHOOSE y \in S : TRUE IN f[x] + SumInt(S \ {x}, f)

\* The mean of the ints f[x], x in S, as a float: the exact quotient,
\* rounded once.
MeanOfInts(S, f) == FloatDiv(FloatOfInt(SumInt(S, f)), Cardinality(S))

RECURSIVE SumInOrder(_, _, _)
\* the floats f[j], j in the set S of indices, added to acc from the least j
\* to the greatest, each sum rounded
SumInOrder(S, f, acc) ==
    IF S = {} THEN acc
    ELSE LET j == CHOOSE x \in S : \A y \in S : x <= y
         IN  SumInOrder(S \ {j}, f, FloatAdd(acc, f[j]))

\* The mean of the floats f[j], j in S, in float arithmetic.
MeanInOrder(S, f) == FloatDiv(SumInOrder(S, f, FloatOfInt(0)), Cardinality(S))

Computed == result.status = "ok"

CollAt(qf, cp) == qf[cp[1]].collections[cp[2]]

\* The positions of a collection whose question (by its question_id or, when
\* absent, its fallback id) has an indicator score.
ScoredPositions(c, ind) ==
    {n \in 0..(Len(c.questions) - 1) :
        QuestionIdOrFallback(c.questions[n + 1], c.collection_id, n) \in DOMAIN ind}

\* C1 (as claimed): after calculate_all_scores, for each collection c,
\* criterion_scores[c] is present iff at least one question of c, identified
\* by its question_id or else its fallback id, has an indicator score, and
\* then it is the mean of the indicator scores of exactly those questions.
C1_CriterionIsMeanOfScoredQuestions ==
    Computed =>
        \A cp \in CollPlaces(question_files) :
            LET c   == CollAt(question_files, cp)
                ind == result.indicator_scores
                sp  == ScoredPositions(c, ind)
            IN  /\ (c.collection_id \in DOMAIN result.criterion_scores) <=> (sp # {})
                /\ sp # {} =>
                     result.criterion_scores[c.collection_id] =
                       MeanOfInts(sp, [n \in sp |->
                          ind[QuestionIdOrFallback(c.questions[n + 1],
                                                   c.collection_id, n)]])

\* The collections of page i that have a criterion score.
ScoredCollections(qf, i, crit) ==
    {j \in 1..Len(qf[i].collections) :
        qf[i].collections[j].collection_id \in DOMAIN crit}

ValueAsClaimed(qf, i) ==
    LET crit == result.criterion_scores
        sc   == ScoredCollections(qf, i, crit)
        t    == TitleOf(qf[i])
    IN  /\ (t \in DOMAIN result.value_scores) <=> (sc # {})
        /\ sc # {} =>
             result.value_scores[t] =
               MeanInOrder(sc, [j \in sc |-> crit[qf[i].collections[j].collection_id]])

\* C2 (as claimed): for every catalog, for each questionnaire,
\* value_scores[its display title] is present iff one of its collections has
\* a criterion score, and then it is the mean of the criterion scores of
\* exactly its scored collections.
C2_ValueIsMeanOfScoredCollections ==
    Computed => \A i \in 1..Len(question_files) : ValueAsClaimed(question_files, i)

DistinctTitles(qf) ==
    \A i, j \in 1..Len(qf) : TitleOf(qf[i]) = TitleOf(qf[j]) => i = j

\* C2 (amended): the same, for every catalog whose questionnaires have
\* pairwise distinct display titles.
C2_ValueIsMeanWhenTitlesDistinct ==
    (Computed /\ DistinctTitles(question_files)) =>
        \A i \in 1..Len(question_files) : ValueAsClaimed(question_files, i)

\* C2 witness: a questionnaire whose value score averages two different
\* criterion scores, and another one that has no value score.
C2_Witness ==
    /\ Computed
    /\ DistinctTitles(question_files)
    /\ \E i \in 1..Len(question_files) :
          LET crit == result.criterion_scores
              sc   == ScoredCollections(question_files, i, crit)
          IN  /\ TitleOf(question_files[i]) \in DOMAIN result.value_scores
              /\ \E j, k \in sc :
                    crit[question_files[i].collections[j].collection_id] #
                    crit[question_files[i].collections[k].collection_id]
    /\ \E i \in 1..Len(question_files) :
          TitleOf(question_files[i]) \notin DOMAIN result.value_scores

\* A record the claim says is skipped.
Skipped(qf, rec) ==
    LET parts == Split(rec.k) IN
    \/ Len(parts) < 3
    \/ parts[1] \notin PageKeys(qf)
    \/ \A j \in 1..Len(PageOf(qf, parts[1]).collections) :
          PageOf(qf, parts[1]).collections[j].collection_id # parts[2]
    \/ ~ \E j \in 1..Len(PageOf(qf, parts[1]).collections) :
          LET c == PageOf(qf, parts[1]).collections[j] IN
          /\ c.collection_id = parts[2]
          /\ \E n \in 0..(Len(c.questions) - 1) : parts[3] = IntToStr(n)

NotSkipped(rec) == ~Skipped(question_files, rec)

\* C3 (as claimed): for arbitrary string keys calculate_all_scores completes
\* without raising, and the records with a short key, an unknown page or
\* collection, or a third segment that is no valid position are skipped: the
\* indicator scores are those of the other records alone.
C3_OddKeysAreSkipped ==
    lastOp = "calculate" =>
        /\ result.status = "ok"
        /\ result.indicator_scores =
             calculate_indicator_scores(question_files,
                                        SelectSeq(answers, NotSkipped)).scores

\* 0 <= r <= 6 for a float r
InRange06(r) == FloatLeq(FloatOfInt(0), r) /\ FloatLeq(r, FloatOfInt(6))

\* C4: every value of the returned ScoreData lies in [0,6]: the indicator
\* scores are integers 0..6, the criterion and value scores lie between 0
\* and 6.
C4_ScoresInRange ==
    Computed =>
        /\ \A q \in DOMAIN result.indicator_scores :
              result.indicator_scores[q] \in 0..6
        /\ \A c \in DOMAIN result.criterion_scores :
              InRange06(result.criterion_scores[c])
        /\ \A t \in DOMAIN result.value_scores :
              InRange06(result.value_scores[t])

\* C4 witness: scores computed from an option id outside A..G and a
\* lower-case one, both resolved to questions.
C4_Witness ==
    /\ Computed
    /\ Len(answers) = 2
    /\ answers[1].v.option_id = <<"Z">>
    /\ answers[2].v.option_id = <<"g">>
    /\ Cardinality(DOMAIN result.indicator_scores) = 2
    /\ result.value_scores # EmptyMap

ProgressComputed == progress # NoProgress

\* The keys whose first two underscore-delimited segments are (pk, cid).
KeysOfCollection(ans, pk, cid) ==
    {i \in 1..Len(ans) :
        LET parts == Split(ans[i].k) IN
        Len(parts) >= 2 /\ parts[1] = pk /\ parts[2] = cid}

\* The (collection, key) pairs of page pg where the key has the characters
\* of f"{page_key}_{collection_id}" as its first characters.
PrefixPairs(ans, pg) ==
    {jk \in (1..Len(pg.collections)) \X (1..Len(ans)) :
        LET pre == pg.page_key \o U \o pg.collections[jk[1]].collection_id
            key == ans[jk[2]].k
        IN  /\ Len(key) >= Len(pre)
            /\ \A x \in 1..Len(pre) : key[x] = pre[x]}

TotalOf(pg) ==
    SumInt(1..Len(pg.collections),
           [j \in 1..Len(pg.collections) |-> Len(pg.collections[j].questions)])

ProgressIs(st, answered, total) ==
    /\ st.total = total
    /\ st.answered = answered
    /\ st.progress = IF total = 0 THEN FloatOfInt(0)
                     ELSE FloatDiv(FloatOfInt(answered), total)

\* C5 (as claimed): per questionnaire, total is the sum of the question
\* counts of its collections, answered is the number of answer keys whose
\* first two segments are (page_key, collection_id) of one of its
\* collections, each key counted once, and progress is answered/total, 0
\* when total is 0.
C5_AnsweredCountsEachKeyOnce ==
    ProgressComputed =>
        \A i \in 1..Len(question_files) :
            LET pg == question_files[i] IN
            ProgressIs(DictGet(progress, pg.page_key),
                       Cardinality(UNION {KeysOfCollection(answers, pg.page_key,
                                              pg.collections[j].collection_id) :
                                          j \in 1..Len(pg.collections)}),
                       TotalOf(pg))

\* C5 (amended): answered is the number of pairs (collection of the
\* questionnaire, answer key) such that the key starts with the string
\* "<page_key>_<collection_id>": a key is counted once for every collection
\* whose prefix it starts with.  total and progress are as claimed.  This
\* is the entry of every questionnaire whose page key is not 'overall'; the
\* entry 'overall' holds the sums over all questionnaires, also when a
\* questionnaire has that page key.
C5_AnsweredCountsPrefixMatches ==
    ProgressComputed =>
        /\ \A i \in 1..Len(question_files) :
              LET pg == question_files[i] IN
              pg.page_key # OverallKey =>
                  ProgressIs(DictGet(progress, pg.page_key),
                             Cardinality(PrefixPairs(answers, pg)), TotalOf(pg))
        /\ ProgressIs(DictGet(progress, OverallKey),
                      SumInt(1..Len(question_files),
                             [i \in 1..Len(question_files) |->
                                 Cardinality(PrefixPairs(answers, question_files[i]))]),
                      SumInt(1..Len(question_files),
                             [i \in 1..Len(question_files) |->
                                 TotalOf(question_files[i])]))

\* C5 witness: progress computed where one key is counted under two
\* collections, on a page that also has a key counted once.
C5_Witness ==
    /\ ProgressComputed
    /\ \E i \in 1..Len(question_files) :
          LET pp == PrefixPairs(answers, question_files[i]) IN
          /\ \E a, b \in pp : a[2] = b[2] /\ a[1] # b[1]
          /\ \E a \in pp : \A b \in pp : a[2] = b[2] => a = b

-----------------------------------------------------------------------------
(* The score lines of display_score_section *)

MaxLines == 2

\* The half-step grid runs from -GridBelow/2 to GridAbove/2.
GridBelow == 2

GridAbove == 15

\* the float k/2
GridScore(k) == FloatDiv(FloatOfInt(k), 2)

Grid == {GridScore(k) : k \in (0 - GridBelow)..GridAbove}

InitLetter ==
    /\ question_files = <<>>       \* QuestionnaireProcessor({}) of line 278
    /\ answers = <<>>
    /\ current_question = EmptyMap
    /\ page = 0
    /\ lastOp = "init"
    /\ result = NoResult
    /\ progress = NoProgress
    /\ score_cache = NoResult
    /\ probe = NoProbe
    /\ answers2 = <<>>
    /\ result2 = NoResult
    /\ lines = <<>>
    /\ shown = EmptyMap

\* One iteration of the loop of lines 280-290: the grade letter of a score.
DisplayScore(score) ==
    /\ Len(lines) < MaxLines
    /\ lines' = Append(lines, [score |-> score, letter |-> grade_to_letter(score)])
    /\ lastOp' = "display_score"
    /\ UNCHANGED <<question_files, answers, current_question, page, result,
                   progress, score_cache, probe, answers2, result2, shown>>

NextLetter == \E score \in Grid : DisplayScore(score)

SpecLetter == InitLetter /\ [][NextLetter]_vars

\* the number of half steps of a score of the grid: g = HalfSteps(g) / 2
HalfSteps(g) == CHOOSE k \in (0 - GridBelow)..GridAbove : GridScore(k) = g

\* |k - 2r|: twice the distance of k/2 and r
TwiceDist(k, r) == IF k < 2 * r THEN 2 * r - k ELSE k - 2 * r

\* C6 (as claimed): for 0 <= g <= 6 on the half-step grid the letter is the
\* one whose ordinal is g rounded to the nearest integer, ties rounded away
\* from zero; outside [0,6] it is 'A'.
C6_LetterRoundsHalfAway ==
    \A i \in 1..Len(lines) :
        LET k == HalfSteps(lines[i].score) IN
        IF 0 <= k /\ k <= 12
        THEN \E r \in 0..6 :
                /\ lines[i].letter = LETTER_MAPPING[r + 1]
                /\ TwiceDist(k, r) <= 1
                /\ TwiceDist(k, r) = 1 => 2 * r > k
        ELSE lines[i].letter = "A"

\* C6 (amended): for 0 <= g <= 6 on the half-step grid the letter is the one
\* whose ordinal is g rounded to the nearest integer, a tie (x.5) going to
\* the even neighbour; outside [0,6] it is 'A'.
C6_LetterRoundsHalfEven ==
    \A i \in 1..Len(lines) :
        LET k == HalfSteps(lines[i].score) IN
        IF 0 <= k /\ k <= 12
        THEN \E r \in 0..6 :
                /\ lines[i].letter = LETTER_MAPPING[r + 1]
                /\ TwiceDist(k, r) <= 1
                /\ TwiceDist(k, r) = 1 => r % 2 = 0
        ELSE lines[i].letter = "A"

\* C6 witness: 2.5 shown as 'C' and 7 shown as 'A'.
C6_Witness ==
    /\ Len(lines) = 2
    /\ lines[1] = [score |-> GridScore(5), letter |-> "C"]
    /\ lines[2] = [score |-> FloatOfInt(7), letter |-> "A"]

-----------------------------------------------------------------------------
(* A sequence of calls on one processor *)

MaxCallAnswers == 1

CallCatalogs == {CatPlain, CatNoId}

\* Two positions of the first collection and a key that makes the call raise.
CallKeys(qf) ==
    LET pk  == qf[1].page_key
        cid == qf[1].collections[1].collection_id
    IN  {AnswerKey(pk, cid, 0), AnswerKey(pk, cid, 1),
         pk \o U \o cid \o U \o <<"x">>}

CallRecords == {Opt(<<"B">>, <<"t">>), Opt(<<"g">>, <<"t">>)}

CallMaps(qf) == DictsOver(CallKeys(qf), CallRecords, MaxCallAnswers)

InitCalls ==
    /\ question_files \in CallCatalogs
    /\ answers = <<>>
    /\ current_question = EmptyMap
    /\ page = 0
    /\ lastOp = "init"
    /\ result = NoResult
    /\ progress = NoProgress
    /\ score_cache = NoResult       \* self._score_cache = None
    /\ probe = NoProbe
    /\ answers2 = <<>>
    /\ result2 = NoResult
    /\ lines = <<>>
    /\ shown = EmptyMap

\* processor.calculate_all_scores(ans) on the same processor; the call may
\* be the one that is remembered for later comparison (probe.between then
\* records that a later call computed the scores of another answer map).
Call(ans, remember) ==
    /\ LET r == calculate_all_scores(question_files, score_cache, ans) IN
       /\ result' = r.ret
       /\ score_cache' = r.cache
       /\ probe' = IF remember
                   THEN [set |-> TRUE, ans |-> ans, ret |-> r.ret,
                         between |-> FALSE]
                   ELSE [probe EXCEPT !.between =
                            @ \/ (probe.set /\ ans # probe.ans /\ r.ret.status = "ok"
                                  /\ ans # <<>>)]
    /\ answers' = ans
    /\ lastOp' = "calculate"
    /\ UNCHANGED <<question_files, current_question, page, progress, answers2,
                   result2, lines, shown>>

NextCalls == \E ans \in CallMaps(question_files), remember \in BOOLEAN :
                Call(ans, remember)

SpecCalls == InitCalls /\ [][NextCalls]_vars

\* C7: a call made with the answer map of an earlier call returns the maps
\* that call returned, whatever was called in between.
C7_SameAnswersSameScores ==
    (lastOp = "calculate" /\ probe.set /\ probe.ans = answers) =>
        result = probe.ret

\* C7 witness: the remembered call computed scores, a call in between
\* overwrote the cache with the scores of another answer map, and the
\* remembered answer map is passed again.
C7_Witness ==
    /\ lastOp = "calculate"
    /\ probe.set
    /\ probe.between
    /\ probe.ans = answers
    /\ probe.ret.status = "ok"
    /\ probe.ret.criterion_scores # EmptyMap

-----------------------------------------------------------------------------
(* Two answer maps scored against the same catalog *)

MaxPairAnswers == 2

PairCatalogs == <<CatSharedCid, CatPlain, CatNoId, CatSharedTitle, CatPrefix,
                  CatSharedQid, CatUnderscore, CatFallbackClash>>

PairRecords == {Opt(<<"B">>, <<"t">>), Opt(<<"g">>, <<"t">>)}

PairMaps(qf) == DictsOver(ModelKeys(qf), PairRecords, MaxPairAnswers)

\* The keys of page i: those of the positions of its collections.
PageKeySet(qf, i) == {KeyAt(qf, pl) : pl \in {x \in Places(qf) : x[1] = i}}

\* The records of an answer map under the keys of page i.
PageEntries(qf, ans, i) ==
    {ans[x] : x \in {y \in 1..Len(ans) : ans[y].k \in PageKeySet(qf, i)}}

AgreeOn(qf, a, b, i) == PageEntries(qf, a, i) = PageEntries(qf, b, i)

InitPair ==
    /\ \E c \in 1..Len(PairCatalogs) : question_files = PairCatalogs[c]
    /\ answers \in PairMaps(question_files)
    /\ answers2 \in {b \in PairMaps(question_files) :
                       \E i \in 1..Len(question_files) :
                          AgreeOn(question_files, answers, b, i)}
    /\ current_question = EmptyMap
    /\ page = 0
    /\ lastOp = "init"
    /\ result = NoResult
    /\ progress = NoProgress
    /\ score_cache = NoResult
    /\ probe = NoProbe
    /\ result2 = NoResult
    /\ lines = <<>>
    /\ shown = EmptyMap

\* processor.calculate_all_scores(answers)
CalculateFirst ==
    /\ LET r == calculate_all_scores(question_files, score_cache, answers) IN
       /\ result' = r.ret
       /\ score_cache' = r.cache
    /\ lastOp' = "calculate"
    /\ UNCHANGED <<question_files, answers, current_question, page, progress,
                   probe, answers2, result2, lines, shown>>

\* processor.calculate_all_scores(answers2)
CalculateSecond ==
    /\ LET r == calculate_all_scores(question_files, score_cache, answers2) IN
       /\ result2' = r.ret
       /\ score_cache' = r.cache
    /\ lastOp' = "calculate2"
    /\ UNCHANGED <<question_files, answers, current_question, page, progress,
                   probe, answers2, result, lines, shown>>

NextPair == CalculateFirst \/ CalculateSecond

SpecPair == InitPair /\ [][NextPair]_vars

BothComputed == result.status # "none" /\ result2.status # "none"

SameEntry(f, g, k) ==
    /\ (k \in DOMAIN f) <=> (k \in DOMAIN g)
    /\ k \in DOMAIN f => f[k] = g[k]

\* The two runs give page i the same value score and the same criterion
\* scores for its collections (or raise the same exception).
SameOnPage(qf, i) ==
    /\ result.status = result2.status
    /\ SameEntry(result.value_scores, result2.value_scores, TitleOf(qf[i]))
    /\ \A j \in 1..Len(qf[i].collections) :
          SameEntry(result.criterion_scores, result2.criterion_scores,
                    qf[i].collections[j].collection_id)

CidsUniqueWithinPages(qf) ==
    \A cp1, cp2 \in CollPlaces(qf) :
        (cp1[1] = cp2[1] /\
         CollAt(qf, cp1).collection_id = CollAt(qf, cp2).collection_id) => cp1 = cp2

CidsUniqueAcrossCatalog(qf) ==
    \A cp1, cp2 \in CollPlaces(qf) :
        CollAt(qf, cp1).collection_id = CollAt(qf, cp2).collection_id => cp1 = cp2

QidAt(qf, pl) ==
    QuestionIdOrFallback(qf[pl[1]].collections[pl[2]].questions[pl[3] + 1],
                         qf[pl[1]].collections[pl[2]].collection_id, pl[3])

\* Question ids, a fallback id standing for an absent one, are unique.
QidsUniqueAcrossCatalog(qf) ==
    \A pl1, pl2 \in Places(qf) : QidAt(qf, pl1) = QidAt(qf, pl2) => pl1 = pl2

HasUnderscore(s) == \E x \in 1..Len(s) : s[x] = "_"

NoUnderscores(qf) ==
    /\ \A i \in 1..Len(qf) : ~HasUnderscore(qf[i].page_key)
    /\ \A cp \in CollPlaces(qf) : ~HasUnderscore(CollAt(qf, cp).collection_id)

\* C10 (as claimed): for every catalog whose collection ids are unique
\* within each questionnaire and every two answer maps that agree on the
\* keys of page P, the two runs give the same presence and value for P's
\* value score and for the criterion scores of P's collections.
C10_ScoresDependOnOwnPage ==
    (BothComputed /\ CidsUniqueWithinPages(question_files)) =>
        \A i \in 1..Len(question_files) :
            AgreeOn(question_files, answers, answers2, i) =>
                SameOnPage(question_files, i)

\* C10 (amended): the same, for every catalog whose page keys and collection
\* ids contain no underscore and whose collection ids, question ids (the
\* fallback id standing for an absent one) and display titles are each
\* unique across the whole catalog, the answer maps being keyed by
\* "<page_key>_<collection_id>_<position>" of the catalog.
C10_ScoresDependOnOwnPageUniqueIds ==
    (/\ BothComputed
     /\ NoUnderscores(question_files)
     /\ CidsUniqueAcrossCatalog(question_files)
     /\ QidsUniqueAcrossCatalog(question_files)
     /\ DistinctTitles(question_files)) =>
        \A i \in 1..Len(question_files) :
            AgreeOn(question_files, answers, answers2, i) =>
                SameOnPage(question_files, i)

\* C10 witness: two runs that agree on the first page, whose value score
\* averages two criterion scores, and differ in what the second page scores.
C10_Witness ==
    /\ BothComputed
    /\ NoUnderscores(question_files)
    /\ CidsUniqueAcrossCatalog(question_files)
    /\ QidsUniqueAcrossCatalog(question_files)
    /\ DistinctTitles(question_files)
    /\ Len(question_files) = 2
    /\ AgreeOn(question_files, answers, answers2, 1)
    /\ TitleOf(question_files[1]) \in DOMAIN result.value_scores
    /\ TitleOf(question_files[2]) \in DOMAIN result.value_scores
    /\ TitleOf(question_files[2]) \notin DOMAIN result2.value_scores

-----------------------------------------------------------------------------
(* The session: main() runs the script of the page st.navigation shows,    *)
(* once per user event.  What st.radio and st.button return is the         *)
(* environment's choice: a radio returns None or one of the options shown, *)
(* a button any boolean, one button per run except the two nested buttons  *)
(* of the reset.  An exception ends the run and keeps what session state   *)
(* the run has written so far.  Streamlit's own refusal of two widgets     *)
(* with one key is no part of app.py and is not modelled; where a page has *)
(* two collections with one id, line 212 has written the answer before the *)
(* second collection's buttons are made.                                   *)

\* option['option_text'].strip() is non-empty
NonBlank(opt) == Strip(opt.option_text, StripSpace) # <<>>

\* lines 195-199: the options shown
DisplayOptions(q) == SelectSeq(q.options, NonBlank)

\* f"{page_key}_{collection_id}" of line 235
CollectionKey(page_key, collection_id) == page_key \o U \o collection_id

\* The question index display_collection reads for a collection (line 239,
\* after the initialisation of lines 236-237).
PointerOf(cq, ck) == IF ck \in DOMAIN cq THEN cq[ck] ELSE 0

\* The position display_collection shows for a pointer inside the
\* collection: a negative pointer counts from the end (line 245).
PlaceShown(c, cq, page_key) ==
    IF PointerOf(cq, CollectionKey(page_key, c.collection_id)) < 0
    THEN Len(c.questions) + PointerOf(cq, CollectionKey(page_key, c.collection_id))
    ELSE PointerOf(cq, CollectionKey(page_key, c.collection_id))

\* questions[current_q_index] of line 245
QuestionShown(c, cq, page_key) == c.questions[PlaceShown(c, cq, page_key) + 1]

\* A storage key made of the 1-based question number.
StorageKeyOneBased(page_key, collection_id, question_key) ==
    AnswerKey(page_key, collection_id, question_key + 1)

\* answer_storage_key of line 210
StorageKey(page_key, collection_id, question_key) ==
    AnswerKey(page_key, collection_id, question_key)

\* display_text of line 197: f"({option['option_id']}) -- {option['option_text']}"
DisplayText(opt) ==
    <<"(">> \o opt.option_id \o <<")", " ", "-", "-", " ">> \o opt.option_text

\* display_options: the display texts of the options shown, in their order
DisplayTexts(q) ==
    [n \in 1..Len(DisplayOptions(q)) |-> DisplayText(DisplayOptions(q)[n])]

\* option_mapping[display_text] after the loop of lines 195-199: the last
\* option shown with that display text
OptionMapping(q, display_text) ==
    DisplayOptions(q)[CHOOSE n \in 1..Len(DisplayOptions(q)) :
                         /\ DisplayText(DisplayOptions(q)[n]) = display_text
                         /\ \A k \in (n + 1)..Len(DisplayOptions(q)) :
                               DisplayText(DisplayOptions(q)[k]) # display_text]

\* display_question (lines 175-212) for the radio value sel (0: None, n: the
\* n-th entry of display_options): [ans, crash].  A question without
\* question_id raises KeyError on line 178.  The radio returns a display
\* text, and line 212 stores the option option_mapping holds for it.
display_question(q, question_key, page_key, collection_id, ans, sel) ==
    IF ~q.question_id.has THEN [ans |-> ans, crash |-> TRUE]
    ELSE IF q.options = <<>> \/ DisplayOptions(q) = <<>> \/ sel = 0
         THEN [ans |-> ans, crash |-> FALSE]
         ELSE [ans |-> DictSet(ans, StorageKey(page_key, collection_id, question_key),
                               OptionMapping(q, DisplayTexts(q)[sel])),
               crash |-> FALSE]

\* A display_collection whose Next button is also offered at the last
\* position.
display_collection_next_at_last(c, j, page_key, ans, cq, sel, click) ==
    IF Len(c.questions) = 0 THEN [ans |-> ans, cq |-> cq, status |-> "done"]
    ELSE
    LET ck  == CollectionKey(page_key, c.collection_id)
        cq1 == IF ck \in DOMAIN cq THEN cq ELSE MapSet(cq, ck, 0)
        idx == cq1[ck]
    IN
    IF idx >= Len(c.questions) \/ idx < 0 - Len(c.questions)
    THEN [ans |-> ans, cq |-> cq1, status |-> "crash"]
    ELSE
    LET q == c.questions[IF idx < 0 THEN Len(c.questions) + idx + 1 ELSE idx + 1]
        d == display_question(q, idx, page_key, c.collection_id, ans, sel)
    IN
    IF d.crash THEN [ans |-> d.ans, cq |-> cq1, status |-> "crash"]
    ELSE IF idx > 0 /\ click = <<"prev", j>>
    THEN [ans |-> d.ans, cq |-> MapSet(cq1, ck, idx - 1), status |-> "rerun"]
    ELSE IF idx < Len(c.questions) /\ click = <<"next", j>>
    THEN [ans |-> d.ans, cq |-> MapSet(cq1, ck, idx + 1), status |-> "rerun"]
    ELSE [ans |-> d.ans, cq |-> cq1, status |-> "done"]

\* display_collection (lines 221-270) for collection j of a page:
\* [ans, cq, status], status "done", "rerun" (st.rerun()) or "crash".
display_collection(c, j, page_key, ans, cq, sel, click) ==
    IF Len(c.questions) = 0 THEN [ans |-> ans, cq |-> cq, status |-> "done"]
    ELSE
    LET ck  == CollectionKey(page_key, c.collection_id)
        cq1 == IF ck \in DOMAIN cq THEN cq ELSE MapSet(cq, ck, 0)
        idx == cq1[ck]
    IN
    IF idx >= Len(c.questions) \/ idx < 0 - Len(c.questions)
    THEN [ans |-> ans, cq |-> cq1, status |-> "crash"]      \* IndexError, line 245
    ELSE
    LET q == c.questions[IF idx < 0 THEN Len(c.questions) + idx + 1 ELSE idx + 1]
        d == display_question(q, idx, page_key, c.collection_id, ans, sel)
    IN
    IF d.crash THEN [ans |-> d.ans, cq |-> cq1, status |-> "crash"]
    ELSE IF idx > 0 /\ click = <<"prev", j>>
    THEN [ans |-> d.ans, cq |-> MapSet(cq1, ck, idx - 1), status |-> "rerun"]
    ELSE IF idx < Len(c.questions) - 1 /\ click = <<"next", j>>
    THEN [ans |-> d.ans, cq |-> MapSet(cq1, ck, idx + 1), status |-> "rerun"]
    ELSE [ans |-> d.ans, cq |-> cq1, status |-> "done"]

RECURSIVE RunCollections(_, _, _, _, _, _)
\* the loop of lines 427-429 from collection j on
RunCollections(pg, j, ans, cq, sels, click) ==
    IF j > Len(pg.collections) THEN [ans |-> ans, cq |-> cq, status |-> "done"]
    ELSE LET r == display_collection(pg.collections[j], j, pg.page_key, ans, cq,
                                     sels[j], click)
         IN  IF r.status # "done" THEN r
             ELSE RunCollections(pg, j + 1, r.ans, r.cq, sels, click)

\* questionnaire_page_func up to the sidebar
RunPage(pg, ans, cq, sels, click) == RunCollections(pg, 1, ans, cq, sels, click)

\* Whether display_collection, called for collection c, gets to line 212:
\* the pointer is a position of c, the question there has a question_id and
\* shows options, and the radio returns one.
Writes(c, cq, page_key, sel) ==
    /\ sel # 0
    /\ Len(c.questions) > 0
    /\ PointerOf(cq, CollectionKey(page_key, c.collection_id)) < Len(c.questions)
    /\ PointerOf(cq, CollectionKey(page_key, c.collection_id)) >= 0 - Len(c.questions)
    /\ QuestionShown(c, cq, page_key).question_id.has
    /\ DisplayOptions(QuestionShown(c, cq, page_key)) # <<>>

\* The history of one write: the place of the question displayed and the
\* option at the place of the radio the user chose.
WriteRecord(c, i, j, cq, page_key, sel) ==
    [place     |-> <<i, j, PlaceShown(c, cq, page_key)>>,
     option_id |-> DisplayOptions(QuestionShown(c, cq, page_key))[sel].option_id]

RECURSIVE ShownAfter(_, _, _, _, _, _, _, _)
\* The history after the run of page i from collection j on: every write of
\* line 212 is noted under the key it wrote.
ShownAfter(pg, i, j, ans, cq, sels, click, hist) ==
    IF j > Len(pg.collections) THEN hist
    ELSE LET c == pg.collections[j]
             r == display_collection(c, j, pg.page_key, ans, cq, sels[j], click)
             h == IF Writes(c, cq, pg.page_key, sels[j])
                  THEN MapSet(hist,
                              StorageKey(pg.page_key, c.collection_id,
                                         PointerOf(cq, CollectionKey(pg.page_key,
                                                                     c.collection_id))),
                              WriteRecord(c, i, j, cq, pg.page_key, sels[j]))
                  ELSE hist
         IN  IF r.status # "done" THEN h
             ELSE ShownAfter(pg, i, j + 1, r.ans, r.cq, sels, click, h)

\* the numbers of answer options of the questions of a page
OptionCounts(pg) ==
    UNION {{Len(pg.collections[j].questions[x].options) :
               x \in 1..Len(pg.collections[j].questions)} :
           j \in 1..Len(pg.collections)}

\* the greatest of them, 0 for a page without questions
MostOptions(pg) ==
    IF OptionCounts(pg) = {} THEN 0
    ELSE CHOOSE n \in OptionCounts(pg) : \A k \in OptionCounts(pg) : k <= n

\* What the radios of a page can return in a run: for each collection, None
\* or one of the options its current question shows.
RadioValues(pg, cq) ==
    {sels \in [1..Len(pg.collections) -> 0..MostOptions(pg)] :
        \A j \in 1..Len(pg.collections) :
            LET c   == pg.collections[j]
                idx == PointerOf(cq, CollectionKey(pg.page_key, c.collection_id))
                n   == Len(c.questions)
            IN  sels[j] # 0 =>
                  /\ idx >= 0 - n /\ idx < n
                  /\ sels[j] <= Len(DisplayOptions(
                         c.questions[IF idx < 0 THEN n + idx + 1 ELSE idx + 1]))}

NoSel(pg) == [j \in 1..Len(pg.collections) |-> 0]

SessionCatalogs == {CatSharedCid, CatNoId, CatSharedQid, CatUnderscore, CatPrefix,
                    CatPointerClash, CatDupCid, CatTextClash, CatOptions}

InitSession ==
    /\ question_files \in SessionCatalogs
    /\ answers = <<>>                    \* initialize_session_state
    /\ current_question = EmptyMap
    /\ page = 0
    /\ lastOp = "init"
    /\ result = NoResult
    /\ progress = NoProgress
    /\ score_cache = NoResult
    /\ probe = NoProbe
    /\ answers2 = <<>>
    /\ result2 = NoResult
    /\ lines = <<>>
    /\ shown = EmptyMap

SessionUnchanged ==
    UNCHANGED <<question_files, result, progress, score_cache, probe, answers2,
                result2, lines>>

OnQuestionnaire == page \in 1..Len(question_files)

\* The user opens page p: its script runs with fresh widgets.
Navigate(p) ==
    /\ p # page
    /\ page' = p
    /\ IF p = 0 THEN UNCHANGED <<answers, current_question>>
       ELSE LET r == RunPage(question_files[p], answers, current_question,
                             NoSel(question_files[p]), <<"none", 0>>)
            IN  answers' = r.ans /\ current_question' = r.cq
    /\ UNCHANGED shown                   \* no radio returns a value
    /\ lastOp' = "navigate"
    /\ SessionUnchanged

\* A run of the questionnaire page in which no button is pressed: the user
\* has selected an answer (or the page reruns).
SelectAnswer(sels) ==
    /\ OnQuestionnaire
    /\ LET r == RunPage(question_files[page], answers, current_question, sels,
                        <<"none", 0>>)
       IN  answers' = r.ans /\ current_question' = r.cq
    /\ shown' = ShownAfter(question_files[page], page, 1, answers,
                           current_question, sels, <<"none", 0>>, shown)
    /\ lastOp' = "answer"
    /\ UNCHANGED page
    /\ SessionUnchanged

\* A run in which the Previous button of collection j is pressed.
Previous(j, sels) ==
    /\ OnQuestionnaire
    /\ j \in 1..Len(question_files[page].collections)
    /\ LET r == RunPage(question_files[page], answers, current_question, sels,
                        <<"prev", j>>)
       IN  /\ r.status = "rerun"
           /\ answers' = r.ans /\ current_question' = r.cq
    /\ shown' = ShownAfter(question_files[page], page, 1, answers,
                           current_question, sels, <<"prev", j>>, shown)
    /\ lastOp' = "previous"
    /\ UNCHANGED page
    /\ SessionUnchanged

\* A run in which the Next button of collection j is pressed.
NextQuestion(j, sels) ==
    /\ OnQuestionnaire
    /\ j \in 1..Len(question_files[page].collections)
    /\ LET r == RunPage(question_files[page], answers, current_question, sels,
                        <<"next", j>>)
       IN  /\ r.status = "rerun"
           /\ answers' = r.ans /\ current_question' = r.cq
    /\ shown' = ShownAfter(question_files[page], page, 1, answers,
                           current_question, sels, <<"next", j>>, shown)
    /\ lastOp' = "next"
    /\ UNCHANGED page
    /\ SessionUnchanged

\* Whether the run of the page reaches the buttons of collection j.
ReachesButtons(pg, j, ans, cq, sels) ==
    /\ Len(pg.collections[j].questions) > 0
    /\ RunCollections([pg EXCEPT !.collections = SubSeq(pg.collections, 1, j)],
                      1, ans, cq, sels, <<"none", 0>>).status = "done"

\* A run in which Save Answers of collection j is pressed (lines 263-270):
\* it reads the answers and writes nothing.
SaveAnswers(j, sels) ==
    /\ OnQuestionnaire
    /\ j \in 1..Len(question_files[page].collections)
    /\ ReachesButtons(question_files[page], j, answers, current_question, sels)
    /\ LET r == RunPage(question_files[page], answers, current_question, sels,
                        <<"save", j>>)
       IN  answers' = r.ans /\ current_question' = r.cq
    /\ shown' = ShownAfter(question_files[page], page, 1, answers,
                           current_question, sels, <<"save", j>>, shown)
    /\ lastOp' = "save"
    /\ UNCHANGED page
    /\ SessionUnchanged

\* The summary page returns, or raises, before its sidebar and buttons.
SummaryShown == answers # <<>> /\ Scores(question_files, answers).status = "ok"

\* summary_page: the scores are computed into a local and shown.
ViewSummary ==
    /\ page = 0
    /\ lastOp' = "summary"
    /\ UNCHANGED <<answers, current_question, page, shown>>
    /\ SessionUnchanged

\* Copy Results to Clipboard (lines 348-366)
CopyResults ==
    /\ page = 0
    /\ SummaryShown
    /\ lastOp' = "copy"
    /\ UNCHANGED <<answers, current_question, page, shown>>
    /\ SessionUnchanged

\* Recalculate Scores (lines 369-370): st.rerun()
Recalculate ==
    /\ page = 0
    /\ SummaryShown
    /\ lastOp' = "recalculate"
    /\ UNCHANGED <<answers, current_question, page, shown>>
    /\ SessionUnchanged

\* _display_reset_section with both buttons returning True, in the sidebar
\* of a questionnaire page: the page has run to its end before.
ResetOnPage(sels) ==
    /\ OnQuestionnaire
    /\ RunPage(question_files[page], answers, current_question, sels,
               <<"none", 0>>).status = "done"
    /\ answers' = <<>>
    /\ current_question' = EmptyMap
    /\ shown' = EmptyMap
    /\ lastOp' = "reset"
    /\ UNCHANGED page
    /\ SessionUnchanged

\* The same in the sidebar of the summary page.
ResetOnSummary ==
    /\ page = 0
    /\ SummaryShown
    /\ answers' = <<>>
    /\ current_question' = EmptyMap
    /\ shown' = EmptyMap
    /\ lastOp' = "reset"
    /\ UNCHANGED page
    /\ SessionUnchanged

NextSession ==
    \/ \E p \in 0..Len(question_files) : Navigate(p)
    \/ /\ OnQuestionnaire
       /\ \E sels \in RadioValues(question_files[page], current_question) :
          \/ SelectAnswer(sels)
          \/ ResetOnPage(sels)
          \/ \E j \in 1..Len(question_files[page].collections) :
                \/ Previous(j, sels)
                \/ NextQuestion(j, sels)
                \/ SaveAnswers(j, sels)
    \/ ViewSummary
    \/ CopyResults
    \/ Recalculate
    \/ ResetOnSummary

SpecSession == InitSession /\ [][NextSession]_vars

-----------------------------------------------------------------------------
(* Properties of the session *)

\* C8: across the session operations a key of the answer map stays in the
\* answer map (its value may be overwritten), except in the confirmed reset,
\* which empties the whole map at once.
C8_KeysStayUntilReset ==
    [][IF lastOp' = "reset" THEN answers' = <<>>
       ELSE Keys(answers) \subseteq Keys(answers')]_vars

\* C8 witness: two positions of one collection are answered, the second one
\* with the option that is shown second, and Previous has been pressed since.
C8_Witness ==
    /\ lastOp = "previous"
    /\ \E x, y \in 1..Len(answers) :
          LET kx == Split(answers[x].k)
              ky == Split(answers[y].k)
          IN  /\ x < y
              /\ kx[1] = ky[1] /\ kx[2] = ky[2] /\ kx[3] # ky[3]
              /\ answers[y].v.option_id = <<"E">>

\* The question ids that are present are pairwise different.
QuestionIdsUnique(qf) ==
    \A pl1, pl2 \in Places(qf) :
        LET q1 == qf[pl1[1]].collections[pl1[2]].questions[pl1[3] + 1]
            q2 == qf[pl2[1]].collections[pl2[2]].questions[pl2[3] + 1]
        IN  (q1.question_id.has /\ q2.question_id.has
             /\ q1.question_id.val = q2.question_id.val) => pl1 = pl2

\* An option id that is a letter of the alphabet A..G.
HasOrdinal(option_id) ==
    Len(option_id) = 1 /\ \E g \in 0..6 : LETTER_MAPPING[g + 1] = option_id[1]

\* The ordinal of a letter of the alphabet A..G.
Ordinal(option_id) == CHOOSE g \in 0..6 : LETTER_MAPPING[g + 1] = option_id[1]

\* Every key of the answer map is the key of the position of the question
\* that was displayed when it was written, and the scores of the answer map
\* give that question the ordinal of the option that was chosen for it;
\* there is one score per answer.
AnswersResolve(qf, ans, hist) ==
    LET sc == Scores(qf, ans) IN
    /\ sc.status = "ok"
    /\ \A x \in 1..Len(ans) :
          /\ ans[x].k \in DOMAIN hist
          /\ LET pl == hist[ans[x].k].place
                 q  == qf[pl[1]].collections[pl[2]].questions[pl[3] + 1]
             IN  /\ ans[x].k = KeyAt(qf, pl)
                 /\ q.question_id.has
                 /\ q.question_id.val \in DOMAIN sc.indicator_scores
                 /\ HasOrdinal(hist[ans[x].k].option_id)
                 /\ sc.indicator_scores[q.question_id.val]
                      = Ordinal(hist[ans[x].k].option_id)
    /\ Cardinality(DOMAIN sc.indicator_scores) = Len(ans)

\* C9 (as claimed): for every catalog whose page keys and collection ids
\* contain no underscore and whose question ids are unique, in every
\* reachable session state each key of the answer map is
\* "<page_key>_<collection_id>_<i>" with i the position of the question that
\* was shown, calculate_all_scores gives that question the ordinal of the
\* option selected for it, and there are as many indicator scores as answers.
C9_RecordedAnswersResolve ==
    (NoUnderscores(question_files) /\ QuestionIdsUnique(question_files)) =>
        AnswersResolve(question_files, answers, shown)

\* Every option id of the catalog is a letter A..G.
OptionIdsInTable(qf) ==
    \A pl \in Places(qf) :
        LET q == qf[pl[1]].collections[pl[2]].questions[pl[3] + 1] IN
        \A n \in 1..Len(q.options) : HasOrdinal(q.options[n].option_id)

\* C9 (amended): the same for every catalog in which, moreover, the
\* collection ids are unique within each questionnaire and every option id
\* is one of the letters A..G.
C9_RecordedAnswersResolveInDataModel ==
    (/\ NoUnderscores(question_files)
     /\ QuestionIdsUnique(question_files)
     /\ CidsUniqueWithinPages(question_files)
     /\ OptionIdsInTable(question_files)) =>
        AnswersResolve(question_files, answers, shown)

\* C9 witness: in a catalog of the amended claim, three answers on two pages
\* whose collections share an id, one of them an option other than the
\* first, each resolved to the question shown.
C9_Witness ==
    /\ NoUnderscores(question_files)
    /\ QuestionIdsUnique(question_files)
    /\ CidsUniqueWithinPages(question_files)
    /\ OptionIdsInTable(question_files)
    /\ Len(answers) = 3
    /\ AnswersResolve(question_files, answers, shown)
    /\ \E x, y \in 1..Len(answers) :
          /\ Split(answers[x].k)[1] # Split(answers[y].k)[1]
          /\ Split(answers[x].k)[2] = Split(answers[y].k)[2]
          /\ answers[x].v.option_id # answers[y].v.option_id

\* A render of page i with no button pressed gets to collection j: none of
\* the collections before it raises.
RenderReaches(qf, cq, i, j) ==
    RunCollections([qf[i] EXCEPT !.collections = SubSeq(qf[i].collections, 1, j - 1)],
                   1, <<>>, cq, [x \in 1..(j - 1) |-> 0], <<"none", 0>>).status
        = "done"

\* The pointers display_collection reads on line 239 in a render made in
\* this state: for a collection with at least one question that a render of
\* its page gets to, the value under "<page_key>_<collection_id>" after the
\* initialisation of lines 236-237.
PointersRead(qf, cq) ==
    {<<PointerOf(cq, CollectionKey(qf[cp[1]].page_key, CollAt(qf, cp).collection_id)),
       Len(CollAt(qf, cp).questions)>> :
        cp \in {x \in CollPlaces(qf) : /\ Len(CollAt(qf, x).questions) > 0
                                        /\ RenderReaches(qf, cq, x[1], x[2])}}

\* Every pointer a render reads is a position of the collection it is read
\* for, and after a reset every pointer read is 0.
PointersInRange(qf, cq) ==
    /\ \A pr \in PointersRead(qf, cq) : pr[1] >= 0 /\ pr[1] <= pr[2] - 1
    /\ lastOp = "reset" => \A pr \in PointersRead(qf, cq) : pr[1] = 0

\* No two collections of the catalog have the same pointer key.
PointerKeysDistinct(qf) ==
    \A cp1, cp2 \in CollPlaces(qf) :
        CollectionKey(qf[cp1[1]].page_key, CollAt(qf, cp1).collection_id)
          = CollectionKey(qf[cp2[1]].page_key, CollAt(qf, cp2).collection_id)
        => cp1 = cp2

\* C11 (as claimed): for every collection with at least one question, in
\* every state reached by renders, Previous clicks, Next clicks and resets,
\* the pointer read to display a question of the collection is an integer in
\* 0 .. (number of questions - 1), and it is 0 after a reset.
C11_PointerInRange == PointersInRange(question_files, current_question)

\* C11 (amended): the same for every catalog in which no two collections
\* have the same pointer key "<page_key>_<collection_id>".
C11_PointerInRangeDistinctKeys ==
    PointerKeysDistinct(question_files) =>
        PointersInRange(question_files, current_question)

\* C11 witness: pointer keys are distinct, Next has just moved a pointer to
\* the last position of a collection of several questions.
C11_Witness ==
    /\ PointerKeysDistinct(question_files)
    /\ lastOp = "next"
    /\ \E cp \in CollPlaces(question_files) :
          LET c == CollAt(question_files, cp)
              ck == CollectionKey(question_files[cp[1]].page_key, c.collection_id)
          IN  /\ Len(c.questions) > 1
              /\ ck \in DOMAIN current_question
              /\ current_question[ck] = Len(c.questions) - 1

=============================================================================
